---------------------------- MODULE Spec2Model ----------------------------
(***************************************************************************)
(* A model of pastamaker's web front end (src/pastamaker/web.py): the      *)
(* signature check of inbound webhooks, event intake, the single-branch   *)
(* and bulk refresh triggers, the read side of the queue store and the    *)
(* status stream.                                                          *)
(*                                                                         *)
(* Conventions.  A Python str is a tuple of atoms (TLA+ strings), so that *)
(* formatting is concatenation and str.split is Split; None is the tuple  *)
(* <<"None">>, whose atom occurs in no modelled string.  A JSON object is *)
(* a record whose DOMAIN is its key set, so a missing key is a KeyError.  *)
(* An encoded text is a tagged pair: <<"json", v>> is the JSON text of v, *)
(* <<"lz4", t>> the lz4 block of t.                                       *)
(***************************************************************************)
EXTENDS Integers, Sequences, FiniteSets, TLC

VARIABLES
    rq,      \* the rq.Queue behind get_queue(): the jobs waiting for the worker
    store,   \* the redis key space behind get_redis(): key -> stored value
    pulls,   \* the code host: repository full name -> base refs of its open pulls
    req,     \* the request the last handler served
    resp,    \* the response it gave: [status, body]
    log,     \* what the handler logged while serving it
    rq0,     \* the job queue as it was when that request arrived
    last,    \* the last read and its answer, since the worker last wrote
    scan,    \* the GET /status whose loop over the keys is under way
    pc,      \* per streaming session: where stream_generate() stands
    conn,    \* per streaming session: the client still holds the connection
    subscribed, \* the sessions whose pubsub is subscribed to "update"
    inbox,   \* per streaming session: the messages its pubsub has not read
    frames,  \* per streaming session: the frames it yielded, with their cause
    published \* the notifications published on "update" so far

\* the state of the status stream
session == <<pc, conn, subscribed, inbox, frames, published>>

vars == <<rq, store, pulls, req, resp, log, rq0, last, scan, session>>

---------------------------------------------------------------------------
(* Bounds *)

\* requests are taken while at most this many jobs wait in the queue
MaxBacklog == 1
\* open pull requests on the code host
MaxPulls == 2
\* entries of a stored queue snapshot
MaxEntries == 2
\* frames a streaming session yields
MaxFrames == 3
\* notifications the worker publishes on "update"
MaxNotes == 2

---------------------------------------------------------------------------
(* Python values *)

None == <<"None">>

\* truth value of a str, bytes, list or None
Truthy(v) == v # None /\ v # <<>>

\* d.get(k)
Get(d, k) == IF k \in DOMAIN d THEN d[k] ELSE None

\* atoms outside ASCII
NonAscii == {"\\xe9"}

IsAscii(s) == \A i \in 1..Len(s) : s[i] \notin NonAscii

\* s.split(sep): the parts of s between the occurrences of the atom sep
RECURSIVE Split(_, _)
Split(s, sep) ==
    IF \A i \in 1..Len(s) : s[i] # sep
    THEN <<s>>
    ELSE LET i == CHOOSE j \in 1..Len(s) :
                      s[j] = sep /\ \A k \in 1..(j - 1) : s[k] # sep
         IN  <<SubSeq(s, 1, i - 1)>> \o Split(SubSeq(s, i + 1, Len(s)), sep)

\* str(n) for a counter
Str(n) == <<ToString(n)>>

\* the JSON text of a value, and the value of a JSON text
dumps(v) == <<"json", v>>
IsJson(t) == Len(t) = 2 /\ t[1] = "json"
loads(t) == t[2]

\* lz4.block.compress and lz4.block.decompress
compress(t) == <<"lz4", t>>
decompress(c) == c[2]

---------------------------------------------------------------------------
(* Configuration and the job queue *)

WEBHOOK_SECRET == <<"s3cret">>

\* the job rq stores for enqueue(worker.event_handler, event_type, data)
Job(event_type, data) ==
    [func |-> "worker.event_handler", event_type |-> event_type, data |-> data]

\* the response of an unhandled exception, which flask logs
ServerError(exception) ==
    [status |-> 500, body |-> <<"Internal Server Error">>,
     log |-> <<"ERROR: " \o exception>>]

\* flask.abort(code, description)
Abort(code, description) == [status |-> code, body |-> description]

---------------------------------------------------------------------------
(* Signature Authenticator *)

\* utils.compute_hmac: the hex digest of HMAC-SHA1 keyed with the webhook
\* secret, as an ideal keyed digest: one atom per (key, message) pair
compute_hmac(data) == <<"hmac-sha1:" \o ToString(<<WEBHOOK_SECRET, data>>)>>

\* hmac.compare_digest(a, b) on two str: a TypeError when one is not ASCII
compare_digest_raises(a, b) == ~IsAscii(a) \/ ~IsAscii(b)
\* mutant: the comparison's result is not used
compare_digest_ignored(a, b) == TRUE
compare_digest(a, b) == a = b

\* mutant: any algorithm name passes, as long as the header splits in two
authentification_anyalg(request) ==
    LET header_signature == Get(request.headers, "X-Hub-Signature") IN
    IF header_signature = None
    THEN Abort(403, <<"Forbidden">>)
         @@ [log |-> <<"WARNING: Webhook without signature">>]
    ELSE LET parts == Split(header_signature, "=")
         IN  IF Len(parts) # 2
             THEN Abort(403, <<"Forbidden">>)
                  @@ [log |-> <<"WARNING: Webhook signature malformed">>]
             ELSE LET signature == parts[2]
                      mac == compute_hmac(request.data)
                  IN  IF compare_digest_raises(mac, signature)
                      THEN ServerError("TypeError")
                      ELSE IF mac # signature
                      THEN Abort(403, <<"Forbidden">>)
                           @@ [log |-> <<"WARNING: Webhook signature invalid">>]
                      ELSE [status |-> 0, body |-> <<>>, log |-> <<>>]

\* authentification(): [status, body, log]; status 0 when it returns, else
\* the response that ends the request (flask.abort(403), or an exception)
authentification(request) ==
    LET header_signature == Get(request.headers, "X-Hub-Signature") IN
    IF header_signature = None
    THEN Abort(403, <<"Forbidden">>)
         @@ [log |-> <<"WARNING: Webhook without signature">>]
    ELSE LET parts == Split(header_signature, "=")
             sha_name == IF Len(parts) = 2 THEN parts[1] ELSE None
         IN  IF sha_name # <<"sha1">>
             THEN Abort(403, <<"Forbidden">>)
                  @@ [log |-> <<"WARNING: Webhook signature malformed">>]
             ELSE LET signature == parts[2]
                      mac == compute_hmac(request.data)
                  IN  IF compare_digest_raises(mac, signature)
                      THEN ServerError("TypeError")
                      ELSE IF ~compare_digest(mac, signature)
                      THEN Abort(403, <<"Forbidden">>)
                           @@ [log |-> <<"WARNING: Webhook signature invalid">>]
                      ELSE [status |-> 0, body |-> <<>>, log |-> <<>>]

---------------------------------------------------------------------------
(* Event Classifier & Dispatcher *)

QUEUEABLE == {<<"refresh">>, <<"pull_request">>, <<"status">>,
              <<"pull_request_review">>}

\* flask.request.get_json(): the body's value; a body that is no JSON text
\* ends the request with 400
get_json_fails(data) == ~IsJson(data)
get_json(data) == loads(data)

\* lines 185-192: the lookups made for the log line; TRUE when one of them
\* raises KeyError
LogLookupRaises(data) ==
    \/ IF "repository" \in DOMAIN data
       THEN "full_name" \notin DOMAIN data["repository"]
       ELSE \/ "installation" \notin DOMAIN data
            \/ "account" \notin DOMAIN data["installation"]
            \/ "login" \notin DOMAIN data["installation"]["account"]
    \/ "installation" \notin DOMAIN data
    \/ "id" \notin DOMAIN data["installation"]

\* event_handler(): [status, body, log, enq]; enq are the jobs it enqueued.
\* rqUp: the job queue takes the enqueue call (else the call raises)
event_handler(request, rqUp) ==
    LET auth == authentification(request) IN
    IF auth.status # 0 THEN auth @@ [enq |-> <<>>]
    ELSE
    LET event_type == Get(request.headers, "X-GitHub-Event") IN
    IF get_json_fails(request.data)
    THEN Abort(400, <<"Bad Request">>) @@ [log |-> <<>>, enq |-> <<>>]
    ELSE
    LET data == get_json(request.data)
        queued == event_type \in QUEUEABLE
    IN  IF queued /\ ~rqUp THEN ServerError("ConnectionError") @@ [enq |-> <<>>]
        ELSE LET enq == IF queued THEN <<Job(event_type, data)>> ELSE <<>>
             IN  IF LogLookupRaises(data)
                 THEN ServerError("KeyError") @@ [enq |-> enq]
                 ELSE [status |-> 202, body |-> <<>>,
                       log |-> <<"INFO: received event">>, enq |-> enq]

---------------------------------------------------------------------------
(* The code host, as the external client shows it *)

\* the installations, in the order utils.get_installations lists them, each
\* with the repositories its get_repos() lists
INSTALLATIONS ==
    << [id |-> <<"101">>, login |-> <<"alice">>, repos |-> << <<"web">>, <<"docs">> >>],
       [id |-> <<"102">>, login |-> <<"bob">>, repos |-> << <<"api">> >>] >>

FullName(owner, repo) == owner \o <<"/">> \o repo

\* repo.raw_data
RawData(login, repo) ==
    [name |-> repo, full_name |-> FullName(login, repo), owner |-> [login |-> login]]

Repos ==
    UNION { {FullName(INSTALLATIONS[i].login, INSTALLATIONS[i].repos[j]) :
                j \in 1..Len(INSTALLATIONS[i].repos)} :
            i \in 1..Len(INSTALLATIONS) }

Branches == {<<"master">>, <<"stable", "/", "1.0">>}

\* utils.get_installation_id(integration, owner): the id of the owner's
\* installation, None when the owner has none
get_installation_id(owner) ==
    IF \E i \in 1..Len(INSTALLATIONS) : INSTALLATIONS[i].login = owner
    THEN INSTALLATIONS[CHOOSE i \in 1..Len(INSTALLATIONS) :
                           INSTALLATIONS[i].login = owner].id
    ELSE None

---------------------------------------------------------------------------
(* Refresh Trigger *)

\* mutant: the full name is built as repo/owner
refresh_swapped(owner, repo, branch, rqUp) ==
    LET installation_id == get_installation_id(owner) IN
    IF ~Truthy(installation_id)
    THEN Abort(404, owner \o <<" have not installed pastamaker">>)
         @@ [log |-> <<>>, enq |-> <<>>]
    ELSE LET data == [repository |-> [name |-> repo,
                                      full_name |-> FullName(repo, owner),
                                      owner |-> [login |-> owner]],
                      installation |-> [id |-> installation_id],
                      branch |-> branch]
         IN  IF ~rqUp THEN ServerError("ConnectionError") @@ [enq |-> <<>>]
             ELSE [status |-> 202, body |-> <<>>, log |-> <<>>,
                   enq |-> <<Job(<<"refresh">>, data)>>]

\* refresh(owner, repo, branch): [status, body, log, enq]
refresh(owner, repo, branch, rqUp) ==
    LET installation_id == get_installation_id(owner) IN
    IF ~Truthy(installation_id)
    THEN Abort(404, owner \o <<" have not installed pastamaker">>)
         @@ [log |-> <<>>, enq |-> <<>>]
    ELSE LET data == [repository |-> [name |-> repo,
                                      full_name |-> FullName(owner, repo),
                                      owner |-> [login |-> owner]],
                      installation |-> [id |-> installation_id],
                      branch |-> branch]
         IN  IF ~rqUp THEN ServerError("ConnectionError") @@ [enq |-> <<>>]
             ELSE [status |-> 202, body |-> <<>>, log |-> <<>>,
                   enq |-> <<Job(<<"refresh">>, data)>>]

\* set([p.base.ref for p in pulls])
BaseRefs(ps) == {ps[k] : k \in 1..Len(ps)}

\* the order in which `for branch in branches` visits the set: that of iter
SetOrder(set, iter) == SelectSeq(iter, LAMBDA b : b \in set)

\* lines 104-110.  st: [counts, enq, up, raised]; up counts the enqueue
\* calls the job queue still takes, the call after them raises
RECURSIVE BranchLoop(_, _, _, _, _)
BranchLoop(install, repo, bs, k, st) ==
    IF k > Len(bs) \/ st.raised THEN st
    ELSE LET counted == [st EXCEPT !.counts[3] = @ + 1] IN
         IF st.up = 0 THEN [counted EXCEPT !.raised = TRUE]
         ELSE BranchLoop(install, repo, bs, k + 1,
                  [counted EXCEPT
                      !.enq = Append(@, Job(<<"refresh">>,
                                 [repository |-> RawData(install.login, repo),
                                  installation |-> [id |-> install.id],
                                  branch |-> bs[k]])),
                      !.up = @ - 1])

\* mutant: the loop runs over the pull requests' base refs, not over their set
RECURSIVE RepoLoop_nodedupe(_, _, _, _, _)
RepoLoop_nodedupe(install, j, world, iter, st) ==
    IF j > Len(install.repos) \/ st.raised THEN st
    ELSE LET repo == install.repos[j]
             counted == [st EXCEPT !.counts[2] = @ + 1]
         IN  RepoLoop_nodedupe(install, j + 1, world, iter,
                 BranchLoop(install, repo, world[FullName(install.login, repo)],
                            1, counted))

\* lines 98-110
RECURSIVE RepoLoop(_, _, _, _, _)
RepoLoop(install, j, world, iter, st) ==
    IF j > Len(install.repos) \/ st.raised THEN st
    ELSE LET repo == install.repos[j]
             branches == BaseRefs(world[FullName(install.login, repo)])
             counted == [st EXCEPT !.counts[2] = @ + 1]
         IN  RepoLoop(install, j + 1, world, iter,
                 BranchLoop(install, repo, SetOrder(branches, iter), 1, counted))

\* lines 92-110
RECURSIVE InstallLoop(_, _, _, _)
InstallLoop(i, world, iter, st) ==
    IF i > Len(INSTALLATIONS) \/ st.raised THEN st
    ELSE InstallLoop(i + 1, world, iter,
             RepoLoop(INSTALLATIONS[i], 1, world, iter,
                      [st EXCEPT !.counts[1] = @ + 1]))

\* mutant: a failed enqueue call is swallowed and the run is acknowledged
refresh_all_swallow(request, world, iter, up) ==
    LET auth == authentification(request) IN
    IF auth.status # 0 THEN auth @@ [enq |-> <<>>]
    ELSE LET st == InstallLoop(1, world, iter,
                       [counts |-> <<0, 0, 0>>, enq |-> <<>>, up |-> up,
                        raised |-> FALSE])
         IN  [status |-> 202, log |-> <<>>,
              body |-> <<"Updated ">> \o Str(st.counts[1])
                       \o <<" installations, ">> \o Str(st.counts[2])
                       \o <<" repositories, ">> \o Str(st.counts[3])
                       \o <<" branches">>,
              enq |-> st.enq]

\* refresh_all(): [status, body, log, enq], on the code host `world`
refresh_all(request, world, iter, up) ==
    LET auth == authentification(request) IN
    IF auth.status # 0 THEN auth @@ [enq |-> <<>>]
    ELSE LET st == InstallLoop(1, world, iter,
                       [counts |-> <<0, 0, 0>>, enq |-> <<>>, up |-> up,
                        raised |-> FALSE])
         IN  IF st.raised THEN ServerError("ConnectionError") @@ [enq |-> st.enq]
             ELSE [status |-> 202, log |-> <<>>,
                   body |-> <<"Updated ">> \o Str(st.counts[1])
                            \o <<" installations, ">> \o Str(st.counts[2])
                            \o <<" repositories, ">> \o Str(st.counts[3])
                            \o <<" branches">>,
                   enq |-> st.enq]

---------------------------------------------------------------------------
(* Queue State Store and Status Aggregator *)

\* "queues~%s~%s~%s" % (owner, repo, branch)
QueueKey(owner, repo, branch) ==
    <<"queues", "~">> \o owner \o <<"~">> \o repo \o <<"~">> \o branch

\* mutant: no default for a key that has no value
queue_nodefault(r, owner, repo, branch) ==
    LET payload == Get(r, QueueKey(owner, repo, branch)) IN
    IF Truthy(payload)
    THEN [status |-> 200, body |-> payload, log |-> <<>>, enq |-> <<>>]
    ELSE ServerError("TypeError") @@ [enq |-> <<>>]

\* queue(owner, repo, branch) on the store r: [status, body, log, enq]
queue(r, owner, repo, branch) ==
    LET payload == Get(r, QueueKey(owner, repo, branch)) IN
    [status |-> 200,
     body |-> IF Truthy(payload) THEN payload ELSE <<"[]">>,
     log |-> <<>>, enq |-> <<>>]

\* the timestamps entries carry, in the order their strings sort
TIMES == << <<"2017-06-01T10:00:00Z">>, <<"2017-06-02T10:00:00Z">> >>

Rank(t) == CHOOSE i \in 1..Len(TIMES) : TIMES[i] = t

Count(s, x) == Cardinality({i \in 1..Len(s) : s[i] = x})

\* list(sorted(s)) for a list of timestamps
sorted(s) ==
    CHOOSE t \in [1..Len(s) -> {s[i] : i \in 1..Len(s)}] :
        /\ \A i \in 1..Len(s) : Count(t, s[i]) = Count(s, s[i])
        /\ \A i, j \in 1..Len(s) : i <= j => Rank(t[i]) <= Rank(t[j])

\* lines 123-137, one pass of the loop over the key keys[k], whose value was
\* read as reads[k].  st: [queues, bound, pulls, raised]; bound says whether
\* the local `pulls` has been assigned, raised names the exception raised
RECURSIVE StatusLoop(_, _, _, _)
StatusLoop(keys, reads, k, st) ==
    IF k > Len(keys) \/ st.raised # "" THEN st
    ELSE
    LET parts == Split(keys[k], "~") IN
    IF Len(parts) # 4 THEN [st EXCEPT !.raised = "ValueError"]
    ELSE
    LET payload == reads[k]
        snapshot(ps, updated_at) ==
            [owner |-> parts[2], repo |-> parts[3], branch |-> parts[4],
             pulls |-> ps, updated_at |-> updated_at]
    IN  IF Truthy(payload)
        THEN LET ps == loads(decompress(payload))
                 stamps == [i \in 1..Len(ps) |-> ps[i].updated_at]
             IN  IF stamps = <<>>
                 THEN [st EXCEPT !.bound = TRUE, !.pulls = ps,
                                 !.raised = "IndexError"]
                 ELSE StatusLoop(keys, reads, k + 1,
                          [st EXCEPT !.bound = TRUE, !.pulls = ps,
                              !.queues = Append(@,
                                  snapshot(ps, sorted(stamps)[Len(stamps)]))])
        ELSE IF ~st.bound
             THEN [st EXCEPT !.raised = "UnboundLocalError"]
             ELSE StatusLoop(keys, reads, k + 1,
                      [st EXCEPT !.queues = Append(@, snapshot(st.pulls, None))])

\* _get_status(r), where r.keys("queues~*~*~*") listed `keys` and r.get read
\* reads[k] for keys[k]: [status, body, log, enq]
_get_status(keys, reads) ==
    LET st == StatusLoop(keys, reads, 1,
                  [queues |-> <<>>, bound |-> FALSE, pulls |-> <<>>, raised |-> ""])
    IN  IF st.raised # "" THEN ServerError(st.raised) @@ [enq |-> <<>>]
        ELSE [status |-> 200, body |-> dumps(st.queues), log |-> <<>>,
              enq |-> <<>>]

\* r.keys("queues~*~*~*"): the keys of the store that match the pattern
Matching(r) ==
    {key \in DOMAIN r : /\ Len(key) >= 7
                        /\ SubSeq(key, 1, 2) = <<"queues", "~">>
                        /\ Count(key, "~") >= 3}

\* a handler that takes the snapshots it reads out of the store
after_reads_take(r) == [key \in DOMAIN r \ Matching(r) |-> r[key]]

\* a handler that leaves an empty snapshot where it read one
after_reads_reset(r) ==
    [key \in DOMAIN r |-> IF key \in Matching(r) THEN compress(dumps(<<>>))
                          ELSE r[key]]

\* the key space after a handler read it: web.py calls r.get, r.keys and
\* r.pubsub, and never r.set or r.delete
after_reads(r) == r

\* the snapshots of a status answer, whatever the order of the keys
Listed(r) == IF r.status = 200
             THEN {loads(r.body)[i] : i \in 1..Len(loads(r.body))}
             ELSE {}

---------------------------------------------------------------------------
(* Requests *)

\* event payloads: with a repository, with only an installation account,
\* with neither, with a repository and no installation
Payloads ==
    { [repository |-> [full_name |-> <<"alice", "/", "web">>],
       installation |-> [id |-> <<"101">>]],
      [installation |-> [id |-> <<"101">>,
                         account |-> [login |-> <<"alice">>]]],
      [action |-> <<"created">>],
      [repository |-> [full_name |-> <<"bob", "/", "api">>]] }

\* request bodies: the JSON text of each payload, and a text that is no JSON
Bodies == {dumps(p) : p \in Payloads} \cup {<<"{not json">>}

EventTypes == QUEUEABLE \cup {<<"issue_comment">>}

\* signature headers a sender may present with the body b: a well-formed
\* sha1 header for each body's digest (b's own is the valid one), and headers
\* with no separator, another algorithm, two separators, no digest, a
\* non-ASCII digest, and the empty header
SignatureHeaders(b) ==
    {<<"sha1", "=">> \o compute_hmac(c) : c \in Bodies \cup {b}}
    \cup { <<"sha1">> \o compute_hmac(b),
           <<"sha256", "=">> \o compute_hmac(b),
           <<"sha1", "=">> \o compute_hmac(b) \o <<"=">>,
           <<>>, <<"sha1", "=">>, <<"sha1", "=", "\\xe9">> }

\* the headers of a request; None stands for a header that is not sent
Headers(sig, event_type) ==
    ( IF sig = None THEN <<>> ELSE ("X-Hub-Signature" :> sig) )
    @@ ( IF event_type = None THEN <<>> ELSE ("X-GitHub-Event" :> event_type) )
    @@ ("X-GitHub-Delivery" :> <<"d-1">>)

NoReq == [op |-> "none"]
NoResp == [status |-> 0, body |-> <<>>]

\* the clients of GET /status/stream
Sessions == {"s1", "s2"}

NoRead == [op |-> "none"]
NoScan == [at |-> "none"]

---------------------------------------------------------------------------
(* Actions *)

\* the service starts with an empty job queue and an empty store, on a code
\* host with the open pull requests of `world`
Start(world) ==
    /\ rq = <<>>
    /\ store = <<>>
    /\ pulls = world
    /\ req = NoReq
    /\ resp = NoResp
    /\ log = <<>>
    /\ rq0 = <<>>
    /\ last = NoRead
    /\ scan = NoScan
    /\ pc = [s \in Sessions |-> "none"]
    /\ conn = [s \in Sessions |-> FALSE]
    /\ subscribed = {}
    /\ inbox = [s \in Sessions |-> <<>>]
    /\ frames = [s \in Sessions |-> <<>>]
    /\ published = 0

NoPulls == [r \in Repos |-> <<>>]

Init == Start(NoPulls)

\* no exchange is open: the worker and the code host move between exchanges
Quiet == req = NoReq

\* a request is taken when no exchange is open and the backlog is bounded
Idle == Quiet /\ Len(rq) <= MaxBacklog

\* the record of the last exchange is dropped
Forget == req' = NoReq /\ resp' = NoResp /\ log' = <<>> /\ rq0' = <<>>

\* POST /event
POST_event ==
    /\ Idle
    /\ \E b \in Bodies, et \in EventTypes \cup {None}, rqUp \in BOOLEAN :
       \E sig \in SignatureHeaders(b) \cup {None} :
          LET request == [headers |-> Headers(sig, et), data |-> b]
              r == event_handler(request, rqUp)
          IN  /\ req' = [op |-> "event", request |-> request, rqUp |-> rqUp]
              /\ resp' = [status |-> r.status, body |-> r.body]
              /\ log' = r.log
              /\ rq0' = rq
              /\ rq' = rq \o r.enq
    /\ UNCHANGED <<store, pulls, last, scan, session>>

\* auth(): [status, body, log, enq]
auth ==
    [status |-> 200, body |-> <<"pastamaker don't need oauth setup">>,
     log |-> <<>>, enq |-> <<>>]

\* GET /auth
GET_auth ==
    /\ Idle
    /\ req' = [op |-> "auth"]
    /\ resp' = [status |-> auth.status, body |-> auth.body]
    /\ log' = auth.log
    /\ rq0' = rq
    /\ rq' = rq \o auth.enq
    /\ UNCHANGED <<store, pulls, last, scan, session>>

\* the response has left and the request context is torn down
Reply ==
    /\ req # NoReq
    /\ Forget
    /\ UNCHANGED <<rq, store, pulls, last, scan, session>>

\* the worker takes the oldest job
WorkerPop ==
    /\ Quiet
    /\ rq # <<>>
    /\ rq' = Tail(rq)
    /\ UNCHANGED <<store, pulls, req, resp, log, rq0, last, scan, session>>

\* the route parameters of POST /refresh/<owner>/<repo>/<path:branch>
Owners == {<<"alice">>, <<"bob">>, <<"carol">>}
RepoNames == {<<"web">>, <<"api">>}

\* POST /refresh/<owner>/<repo>/<path:branch>
POST_refresh ==
    /\ Idle
    /\ \E owner \in Owners, repo \in RepoNames, branch \in Branches,
          rqUp \in BOOLEAN :
          LET r == refresh(owner, repo, branch, rqUp)
          IN  /\ req' = [op |-> "refresh", owner |-> owner, repo |-> repo,
                         branch |-> branch, rqUp |-> rqUp]
              /\ resp' = [status |-> r.status, body |-> r.body]
              /\ log' = r.log
              /\ rq0' = rq
              /\ rq' = rq \o r.enq
    /\ UNCHANGED <<store, pulls, last, scan, session>>

\* the orders in which a set of branches may be iterated
BranchOrders ==
    {o \in [1..Cardinality(Branches) -> Branches] :
        \A i, j \in DOMAIN o : i # j => o[i] # o[j]}

\* POST /refresh
POST_refresh_all ==
    /\ Idle
    /\ \E sig \in SignatureHeaders(<<>>) \cup {None}, iter \in BranchOrders,
          up \in 0..MaxPulls :
          LET request == [headers |-> Headers(sig, None), data |-> <<>>]
              r == refresh_all(request, pulls, iter, up)
          IN  /\ req' = [op |-> "refresh_all", request |-> request, up |-> up]
              /\ resp' = [status |-> r.status, body |-> r.body]
              /\ log' = r.log
              /\ rq0' = rq
              /\ rq' = rq \o r.enq
    /\ UNCHANGED <<store, pulls, last, scan, session>>

TotalPulls == LET RECURSIVE Sum(_)
                  Sum(S) == IF S = {} THEN 0
                            ELSE LET r == CHOOSE x \in S : TRUE
                                 IN  Len(pulls[r]) + Sum(S \ {r})
              IN  Sum(Repos)

\* a pull request is opened against a branch of a repository
OpenPull ==
    /\ Quiet
    /\ TotalPulls < MaxPulls
    /\ \E r \in Repos, b \in Branches :
          pulls' = [pulls EXCEPT ![r] = Append(@, b)]
    /\ UNCHANGED <<rq, store, req, resp, log, rq0, last, scan, session>>

\* a pull request is merged or closed
ClosePull ==
    /\ Quiet
    /\ \E r \in Repos :
          /\ pulls[r] # <<>>
          /\ \E k \in 1..Len(pulls[r]) :
                pulls' = [pulls EXCEPT ![r] =
                             SubSeq(@, 1, k - 1) \o SubSeq(@, k + 1, Len(@))]
    /\ UNCHANGED <<rq, store, req, resp, log, rq0, last, scan, session>>

\* the queues the worker keeps, and one it never writes
WrittenQueues == { <<<<"alice">>, <<"web">>, <<"master">>>>,
                   <<<<"bob">>, <<"api">>, <<"stable", "/", "1.0">>>> }
AskedQueues == WrittenQueues \cup { <<<<"carol">>, <<"web">>, <<"master">>>> }

\* GET /queue/<owner>/<repo>/<path:branch>
GET_queue ==
    /\ Idle
    /\ \E q \in AskedQueues :
          LET r == queue(store, q[1], q[2], q[3])
          IN  /\ req' = [op |-> "queue", owner |-> q[1], repo |-> q[2],
                         branch |-> q[3]]
              /\ resp' = [status |-> r.status, body |-> r.body]
              /\ log' = r.log
              /\ last' = [op |-> "queue", key |-> q, status |-> r.status,
                          body |-> r.body,
                          again |-> (last.op = "queue" /\ last.key = q)]
    /\ rq0' = rq
    /\ store' = after_reads(store)
    /\ UNCHANGED <<rq, pulls, scan, session>>

\* the orders in which r.keys may list a set of keys
Orders(S) ==
    {o \in [1..Cardinality(S) -> S] : \A i, j \in DOMAIN o : i # j => o[i] # o[j]}

\* GET /status
GET_status ==
    /\ Idle
    /\ \E keys \in Orders(Matching(store)) :
          LET r == _get_status(keys, [k \in 1..Len(keys) |-> Get(store, keys[k])])
          IN  /\ req' = [op |-> "status", keys |-> keys]
              /\ resp' = [status |-> r.status, body |-> r.body]
              /\ log' = r.log
              /\ last' = [op |-> "status", status |-> r.status,
                          queues |-> Listed(r),
                          again |-> (last.op = "status")]
    /\ rq0' = rq
    /\ store' = after_reads(store)
    /\ UNCHANGED <<rq, pulls, scan, session>>

\* the entries of the worker's snapshots
Entries == {[number |-> n, updated_at |-> TIMES[i]] :
               n \in {1, 2}, i \in 1..Len(TIMES)}

RECURSIVE SeqsUpTo(_, _)
SeqsUpTo(S, n) ==
    IF n = 0 THEN {<<>>}
    ELSE SeqsUpTo(S, n - 1)
         \cup {Append(s, x) : s \in {t \in SeqsUpTo(S, n - 1) : Len(t) = n - 1},
                              x \in S}

\* f with the key k bound to v
Put(f, k, v) == [x \in DOMAIN f \cup {k} |-> IF x = k THEN v ELSE f[x]]

\* f without the key k
Del(f, k) == [x \in DOMAIN f \ {k} |-> f[x]]

\* the worker replaces the snapshot of a queue
WorkerWrite ==
    /\ Quiet
    /\ \E q \in WrittenQueues, ps \in SeqsUpTo(Entries, MaxEntries) :
          store' = Put(store, QueueKey(q[1], q[2], q[3]), compress(dumps(ps)))
    /\ last' = NoRead
    /\ UNCHANGED <<rq, pulls, req, resp, log, rq0, scan, session>>

\* the worker removes the snapshot of a queue
WorkerDelete ==
    /\ Quiet
    /\ \E key \in DOMAIN store : store' = Del(store, key)
    /\ last' = NoRead
    /\ UNCHANGED <<rq, pulls, req, resp, log, rq0, scan, session>>

\* the entry the worker keeps in the snapshot of the queue q
OwnEntry(q) ==
    [number |-> IF q[1] = <<"alice">> THEN 1 ELSE 2, updated_at |-> TIMES[1]]

\* the worker replaces the snapshot of a queue by its one entry, or by none
WorkerRefresh(q) ==
    /\ Quiet
    /\ \E ps \in {<<>>, <<OwnEntry(q)>>} :
          store' = Put(store, QueueKey(q[1], q[2], q[3]), compress(dumps(ps)))
    /\ last' = NoRead
    /\ UNCHANGED <<rq, pulls, req, resp, log, rq0, scan, session>>

\* GET /status, line 122: r.keys lists the keys
STATUS_keys ==
    /\ Idle
    /\ scan = NoScan
    /\ \E keys \in Orders(Matching(store)) :
          scan' = [at |-> "loop", keys |-> keys, reads |-> <<>>]
    /\ store' = after_reads(store)
    /\ UNCHANGED <<rq, pulls, req, resp, log, rq0, last, session>>

\* GET /status, line 125: r.get reads the value of the next key
STATUS_get ==
    /\ scan # NoScan
    /\ Len(scan.reads) < Len(scan.keys)
    /\ scan' = [scan EXCEPT
                   !.reads = Append(@, Get(store, scan.keys[Len(@) + 1]))]
    /\ store' = after_reads(store)
    /\ UNCHANGED <<rq, pulls, req, resp, log, rq0, last, session>>

\* GET /status, lines 123-138 and 143-144: the answer built from the values
\* read
STATUS_return ==
    /\ Quiet
    /\ scan # NoScan
    /\ Len(scan.reads) = Len(scan.keys)
    /\ LET r == _get_status(scan.keys, scan.reads)
       IN  /\ req' = [op |-> "status", keys |-> scan.keys, reads |-> scan.reads]
           /\ resp' = [status |-> r.status, body |-> r.body]
           /\ log' = r.log
    /\ rq0' = rq
    /\ scan' = NoScan
    /\ last' = NoRead
    /\ UNCHANGED <<rq, store, pulls, session>>

NextScan ==
    \/ STATUS_keys \/ STATUS_get \/ STATUS_return \/ Reply
    \/ (\E q \in WrittenQueues : WorkerRefresh(q)) \/ WorkerDelete

SpecScan == Init /\ [][NextScan]_vars

\* the channel the worker publishes on
UPDATE == <<"update">>

\* what pubsub.get_message() hands over: nothing within the timeout, the
\* confirmation of pubsub.subscribe("update"), or the n-th notification
NoMessage == [type |-> "None"]
Confirmation == [type |-> "subscribe", channel |-> UPDATE, data |-> Str(1)]
Notification(n) == [type |-> "message", channel |-> UPDATE, data |-> Str(n)]

\* what made a session yield a frame, when it was no message
OnConnect == [type |-> "connect"]

\* a subscription that replays what was published before it
subscribe_replay(n) == <<Confirmation>> \o [i \in 1..n |-> Notification(i)]

\* pubsub.subscribe("update") when n notifications were published already:
\* the messages the new subscription holds
subscribe(n) == <<Confirmation>>

\* stream_message(_type, data)
stream_message(_type, data) ==
    <<"event: ">> \o _type \o <<"\ndata: ">> \o data \o <<"\n\n">>

\* pubsub.get_message(timeout=50.0) on the unread messages `box`
get_message(box) ==
    IF box = <<>> THEN [message |-> NoMessage, rest |-> box]
    ELSE [message |-> Head(box), rest |-> Tail(box)]

\* a generator that opens with a heartbeat
stream_first_ping(status) ==
    [raised |-> FALSE, out |-> <<stream_message(<<"ping">>, <<"{}">>)>>]

\* lines 152-153: the first frame, where _get_status(r) gave `status`
stream_first(status) ==
    IF status.status # 200 THEN [raised |-> TRUE, out |-> <<>>]
    ELSE [raised |-> FALSE,
          out |-> <<stream_message(<<"refresh">>, status.body)>>]

\* lines 161-164: what the loop yields for `message`, where _get_status(r)
\* would give `status`
stream_next(message, status) ==
    IF message = NoMessage
    THEN [raised |-> FALSE, out |-> <<stream_message(<<"ping">>, <<"{}">>)>>]
    ELSE IF message.channel = UPDATE
    THEN stream_first(status)
    ELSE [raised |-> FALSE, out |-> <<>>]

\* _get_status(r) on the store as it is now, for one order of the keys
StatusNow(keys) ==
    _get_status(keys, [k \in 1..Len(keys) |-> Get(store, keys[k])])

\* the session s yields the frame `out` (if any), or ends on an exception
Yield(s, r, cause) ==
    IF r.raised
    THEN /\ pc' = [pc EXCEPT ![s] = "raised"]
         /\ subscribed' = subscribed \ {s}
         /\ frames' = frames
    ELSE /\ pc' = [pc EXCEPT ![s] = IF r.out = <<>> THEN "wait" ELSE "yield"]
         /\ subscribed' = subscribed
         /\ frames' = [frames EXCEPT ![s] =
                IF r.out = <<>> THEN @
                ELSE Append(@, [frame |-> r.out[1], cause |-> cause])]

\* GET /status/stream, lines 152-153: the generator runs to its first yield
Connect(s) ==
    /\ pc[s] = "none"
    /\ \E keys \in Orders(Matching(store)) :
          Yield(s, stream_first(StatusNow(keys)), OnConnect)
    /\ conn' = [conn EXCEPT ![s] = TRUE]
    /\ store' = after_reads(store)
    /\ UNCHANGED <<rq, pulls, req, resp, log, rq0, last, scan, inbox, published>>

\* lines 155-156: resumed after the first yield, the generator subscribes
Subscribe(s) ==
    /\ pc[s] = "yield"
    /\ conn[s]
    /\ frames[s][Len(frames[s])].cause = OnConnect
    /\ pc' = [pc EXCEPT ![s] = "wait"]
    /\ subscribed' = subscribed \cup {s}
    /\ inbox' = [inbox EXCEPT ![s] = subscribe(published)]
    /\ UNCHANGED <<rq, store, pulls, req, resp, log, rq0, last, scan, conn,
                   frames, published>>

\* line 157: resumed after a yield of the loop, the generator waits again
Resume(s) ==
    /\ pc[s] = "yield"
    /\ conn[s]
    /\ frames[s][Len(frames[s])].cause # OnConnect
    /\ pc' = [pc EXCEPT ![s] = "wait"]
    /\ UNCHANGED <<rq, store, pulls, req, resp, log, rq0, last, scan, conn,
                   subscribed, inbox, frames, published>>

\* lines 160-164: get_message returns a message
Message(s) ==
    /\ pc[s] = "wait"
    /\ inbox[s] # <<>>
    /\ Len(frames[s]) < MaxFrames
    /\ LET got == get_message(inbox[s]) IN
       /\ inbox' = [inbox EXCEPT ![s] = got.rest]
       /\ \E keys \in Orders(Matching(store)) :
             Yield(s, stream_next(got.message, StatusNow(keys)), got.message)
    /\ store' = after_reads(store)
    /\ UNCHANGED <<rq, pulls, req, resp, log, rq0, last, scan, conn, published>>

\* lines 160-162: get_message returns None after the 50 s timeout
Timeout(s) ==
    /\ pc[s] = "wait"
    /\ inbox[s] = <<>>
    /\ Len(frames[s]) < MaxFrames
    /\ LET got == get_message(inbox[s]) IN
       /\ inbox' = [inbox EXCEPT ![s] = got.rest]
       /\ \E keys \in Orders(Matching(store)) :
             Yield(s, stream_next(got.message, StatusNow(keys)), got.message)
    /\ store' = after_reads(store)
    /\ UNCHANGED <<rq, pulls, req, resp, log, rq0, last, scan, conn, published>>

\* the client goes away
Disconnect(s) ==
    /\ conn[s]
    /\ pc[s] \in {"yield", "wait"}
    /\ conn' = [conn EXCEPT ![s] = FALSE]
    /\ UNCHANGED <<rq, store, pulls, req, resp, log, rq0, last, scan, pc,
                   subscribed, inbox, frames, published>>

\* the server finds the client gone when it writes the frame: the generator
\* is closed at its yield, and its pubsub goes with it
Close(s) ==
    /\ pc[s] = "yield"
    /\ ~conn[s]
    /\ pc' = [pc EXCEPT ![s] = "closed"]
    /\ subscribed' = subscribed \ {s}
    /\ inbox' = [inbox EXCEPT ![s] = <<>>]
    /\ UNCHANGED <<rq, store, pulls, req, resp, log, rq0, last, scan, conn,
                   frames, published>>

\* the worker publishes a notification on "update"
Publish ==
    /\ Quiet
    /\ published < MaxNotes
    /\ published' = published + 1
    /\ inbox' = [s \in Sessions |->
                    IF s \in subscribed
                    THEN Append(inbox[s], Notification(published + 1))
                    ELSE inbox[s]]
    /\ UNCHANGED <<rq, store, pulls, req, resp, log, rq0, last, scan, pc, conn,
                   subscribed, frames>>

\* the queue the worker refreshes while clients stream
StreamedQueue == <<<<"alice">>, <<"web">>, <<"master">>>>

NextStream ==
    \/ \E s \in Sessions :
          \/ Connect(s) \/ Subscribe(s) \/ Resume(s) \/ Message(s)
          \/ Timeout(s) \/ Disconnect(s) \/ Close(s)
    \/ Publish
    \/ WorkerRefresh(StreamedQueue)

SpecStream == Init /\ [][NextStream]_vars

\* a session's generator is scheduled for as long as it has a step to take
Runs(s) == Subscribe(s) \/ Resume(s) \/ Message(s) \/ Timeout(s) \/ Close(s)

\* one client streams while the worker refreshes and publishes
NextStreamOne ==
    \/ Connect("s1") \/ Subscribe("s1") \/ Resume("s1") \/ Message("s1")
    \/ Timeout("s1") \/ Disconnect("s1") \/ Close("s1")
    \/ Publish
    \/ WorkerRefresh(StreamedQueue)

SpecStreamFair == Init /\ [][NextStreamOne]_vars /\ WF_vars(Runs("s1"))

\* no job waits and no client has asked for the stream yet
Calm == rq = <<>> /\ \A s \in Sessions : pc[s] = "none"

\* every operation of the front end, against a store the worker refreshes:
\* requests are served while the service is calm, then a client streams
NextCore ==
    \/ Calm /\ GET_auth
    \/ Calm /\ POST_event
    \/ Calm /\ POST_refresh
    \/ Calm /\ POST_refresh_all
    \/ Calm /\ GET_queue
    \/ Calm /\ GET_status
    \/ Reply
    \/ WorkerPop
    \/ NextStreamOne

SpecCore == Init /\ [][NextCore]_vars

NextEvent == POST_event \/ Reply \/ WorkerPop

SpecEvent == Init /\ [][NextEvent]_vars

NextRefresh ==
    POST_refresh \/ POST_refresh_all \/ Reply \/ WorkerPop \/ OpenPull \/ ClosePull

SpecRefresh == Init /\ [][NextRefresh]_vars

NextRead == GET_queue \/ GET_status \/ Reply \/ WorkerWrite \/ WorkerDelete

SpecRead == Init /\ [][NextRead]_vars

\* a code host with open pull requests when the service starts
SomePulls ==
    [r \in Repos |-> IF r = FullName(<<"alice">>, <<"web">>)
                     THEN << <<"master">>, <<"stable", "/", "1.0">> >>
                     ELSE <<>>]

InitAll == \E world \in {NoPulls, SomePulls} : Start(world)

Next == POST_event \/ POST_refresh \/ POST_refresh_all \/ Reply \/ WorkerPop

Spec == InitAll /\ [][Next]_vars

---------------------------------------------------------------------------
(* What the claims speak of *)

\* the last request went to an endpoint that calls authentification()
Signed == req.op \in {"event", "refresh_all"}

Sig == Get(req.request.headers, "X-Hub-Signature")

\* the header a sender holding the secret computes for the body b
ValidHeader(b) == <<"sha1", "=">> \o compute_hmac(b)

NoSeparator(h) == \A i \in 1..Len(h) : h[i] # "="

\* missing, not exactly an algorithm and a digest, not sha1, or a digest
\* that is not the body's
BadSignature ==
    \/ Sig = None
    \/ Len(Split(Sig, "=")) # 2
    \/ Split(Sig, "=")[1] # <<"sha1">>
    \/ Split(Sig, "=")[2] # compute_hmac(req.request.data)

AuthWarnings ==
    {"WARNING: Webhook without signature", "WARNING: Webhook signature malformed",
     "WARNING: Webhook signature invalid"}

\* authentification() returned: it logged no warning and raised nothing
Accepted ==
    \A i \in 1..Len(log) : log[i] \notin AuthWarnings \cup {"ERROR: TypeError"}

Rejected == resp.status = 403 /\ rq = rq0

\* the jobs the last request added to the queue
NewJobs == SubSeq(rq, Len(rq0) + 1, Len(rq))

EventType == Get(req.request.headers, "X-GitHub-Event")

---------------------------------------------------------------------------
(* C1 *)

\* C1: on POST /event and bulk POST /refresh, a request whose signature
\* header is missing, does not split into exactly an algorithm and a digest,
\* names another algorithm than sha1, or carries a digest that is not the
\* body's, is answered 403 and leaves the job queue as it was.
C1_BadSignatureIs403 ==
    (Signed /\ BadSignature) => (resp.status = 403 /\ rq = rq0)

---------------------------------------------------------------------------
(* C2 *)

\* C2: the header "sha1=" + hex(HMAC-SHA1(S, B)) presented with the body B is
\* accepted by the authenticator; presented with any other body it is
\* rejected.
C2_ValidAcceptedOtherBodyRejected ==
    Signed =>
        /\ Sig = ValidHeader(req.request.data) => Accepted
        /\ \A b \in Bodies \cup {<<>>} :
              (b # req.request.data /\ Sig = ValidHeader(b)) => Rejected

\* a valid header was accepted on a queueable event, which is now queued
C2_Witness ==
    /\ req.op = "event"
    /\ Sig = ValidHeader(req.request.data)
    /\ resp.status = 202
    /\ Len(NewJobs) = 1

---------------------------------------------------------------------------
(* C3 *)

\* C3: a signature header with no "=" separator, or whose algorithm name is
\* not sha1, is rejected whatever digest it carries, the body's own included.
C3_MalformedAlwaysRejected ==
    (Signed /\ Sig # None /\ (NoSeparator(Sig) \/ Split(Sig, "=")[1] # <<"sha1">>))
        => Rejected

\* another algorithm with the digest that is valid for the body: rejected
C3_Witness ==
    /\ req.op = "event"
    /\ Sig = <<"sha256", "=">> \o compute_hmac(req.request.data)
    /\ resp.status = 403

---------------------------------------------------------------------------
(* C4 *)

\* C4: an authenticated POST /event whose type is in the allow-list enqueues
\* exactly one job, carrying that type and the whole event body; one whose
\* type is not enqueues none; both are answered 202.  (Stated for a body that
\* is JSON and a job queue that takes the call.)
C4_EventEnqueueAnd202 ==
    (req.op = "event" /\ Accepted /\ IsJson(req.request.data) /\ req.rqUp) =>
        /\ EventType \in QUEUEABLE =>
              NewJobs = <<Job(EventType, loads(req.request.data))>>
        /\ EventType \notin QUEUEABLE => NewJobs = <<>>
        /\ Len(rq) >= Len(rq0) /\ SubSeq(rq, 1, Len(rq0)) = rq0
        /\ resp.status = 202

---------------------------------------------------------------------------
(* C5 *)

\* C5: every authenticated event is answered 202, whatever its type and
\* whatever fields its payload has or lacks.  (Stated for a body that is JSON
\* and, when the event is queueable, a job queue that takes the call.)
C5_AuthenticatedEventIs202 ==
    ( /\ req.op = "event" /\ Accepted /\ IsJson(req.request.data)
      /\ (EventType \in QUEUEABLE => req.rqUp) )
        => resp.status = 202

---------------------------------------------------------------------------
(* C6 *)

\* the (repository, branch) pairs a bulk refresh is meant to enqueue
Targets == {<<r, b>> \in Repos \X Branches : b \in BaseRefs(pulls[r])}

Installed(owner) == \E i \in 1..Len(INSTALLATIONS) : INSTALLATIONS[i].login = owner

\* an enqueue call of the last request raised
EnqueueFailed ==
    \/ /\ req.op = "event" /\ Accepted /\ IsJson(req.request.data)
       /\ EventType \in QUEUEABLE /\ ~req.rqUp
    \/ req.op = "refresh" /\ Installed(req.owner) /\ ~req.rqUp
    \/ req.op = "refresh_all" /\ Accepted /\ req.up < Cardinality(Targets)

\* C6: when a queueable event, a single-branch refresh or a bulk refresh is
\* answered 202, every job it was meant to enqueue is in the job queue, behind
\* the jobs that were there; when an enqueue call fails the answer is a server
\* error, never 202.
C6_EnqueueBeforeAcknowledge ==
    /\ (req.op = "event" /\ resp.status = 202 /\ EventType \in QUEUEABLE) =>
          rq = rq0 \o <<Job(EventType, loads(req.request.data))>>
    /\ (req.op = "refresh" /\ resp.status = 202) =>
          /\ Len(rq) = Len(rq0) + 1 /\ SubSeq(rq, 1, Len(rq0)) = rq0
          /\ rq[Len(rq)].event_type = <<"refresh">>
          /\ rq[Len(rq)].data.repository.full_name = FullName(req.owner, req.repo)
          /\ rq[Len(rq)].data.branch = req.branch
    /\ (req.op = "refresh_all" /\ resp.status = 202) =>
          /\ SubSeq(rq, 1, Len(rq0)) = rq0
          /\ \A t \in Targets : \E k \in 1..Len(NewJobs) :
                /\ NewJobs[k].event_type = <<"refresh">>
                /\ NewJobs[k].data.repository.full_name = t[1]
                /\ NewJobs[k].data.branch = t[2]
    /\ EnqueueFailed => resp.status = 500

\* a bulk refresh answered 202 with its two jobs queued behind an older one
C6_Witness ==
    /\ req.op = "refresh_all" /\ resp.status = 202
    /\ Cardinality(Targets) = 2 /\ Len(rq0) = 1 /\ Len(rq) = 3

---------------------------------------------------------------------------
(* C7 *)

\* C7: POST /refresh/<owner>/<repo>/<branch>: with no installation for the
\* owner the answer is a 404 naming the owner and nothing is enqueued;
\* otherwise exactly one "refresh" job is enqueued, whose payload carries the
\* repository name, the full name owner/repo, the owner login, the owner's
\* installation id and the branch, and the answer is 202 with an empty body.
\* (The second half is stated for a job queue that takes the call.)
C7_SingleRefresh ==
    req.op = "refresh" =>
        /\ ~Installed(req.owner) =>
              /\ resp.status = 404
              /\ SubSeq(resp.body, 1, Len(req.owner)) = req.owner
              /\ rq = rq0
        /\ (Installed(req.owner) /\ req.rqUp) =>
              /\ resp = [status |-> 202, body |-> <<>>]
              /\ Len(NewJobs) = 1 /\ rq = rq0 \o NewJobs
              /\ NewJobs[1].func = "worker.event_handler"
              /\ NewJobs[1].event_type = <<"refresh">>
              /\ NewJobs[1].data =
                    [repository |-> [name |-> req.repo,
                                     full_name |-> req.owner \o <<"/">> \o req.repo,
                                     owner |-> [login |-> req.owner]],
                     installation |->
                        [id |-> INSTALLATIONS[CHOOSE i \in 1..Len(INSTALLATIONS) :
                                    INSTALLATIONS[i].login = req.owner].id],
                     branch |-> req.branch]

\* a refresh for an installed owner, queued behind an older job
C7_Witness ==
    /\ req.op = "refresh" /\ req.owner = <<"bob">> /\ resp.status = 202
    /\ Len(rq0) = 1 /\ Len(rq) = 2

---------------------------------------------------------------------------
(* C8 *)

\* the number of repositories over all installations
SumRepos ==
    LET RECURSIVE Sum(_)
        Sum(i) == IF i = 0 THEN 0 ELSE Len(INSTALLATIONS[i].repos) + Sum(i - 1)
    IN  Sum(Len(INSTALLATIONS))

\* C8: an authenticated bulk refresh over N installations, R repositories per
\* installation and B distinct target branches per repository answers with
\* the counters (N, sum R, sum B) and enqueues exactly sum B refresh jobs, one
\* per distinct (repository, branch) pair; a repository with no open pull
\* request is counted and contributes no branch.  (Stated for a job queue
\* that takes every call.)
C8_BulkRefreshCounts ==
    (req.op = "refresh_all" /\ Accepted /\ ~EnqueueFailed) =>
        /\ resp.status = 202
        /\ resp.body = <<"Updated ", ToString(Len(INSTALLATIONS)), " installations, ",
                         ToString(SumRepos), " repositories, ",
                         ToString(Cardinality(Targets)), " branches">>
        /\ rq = rq0 \o NewJobs
        /\ Len(NewJobs) = Cardinality(Targets)
        /\ {<<NewJobs[k].data.repository.full_name, NewJobs[k].data.branch>> :
               k \in 1..Len(NewJobs)} = Targets
        /\ \A k \in 1..Len(NewJobs) : NewJobs[k].event_type = <<"refresh">>

\* two pull requests of one repository target the same branch, another
\* repository has none: one job
C8_Witness ==
    /\ req.op = "refresh_all" /\ resp.status = 202
    /\ \E r \in Repos : Len(pulls[r]) = 2 /\ Cardinality(BaseRefs(pulls[r])) = 1
    /\ \E r \in Repos : pulls[r] = <<>>
    /\ Len(NewJobs) = 1

---------------------------------------------------------------------------
(* C9 *)

AskedKey == QueueKey(req.owner, req.repo, req.branch)

\* C9: GET /queue/<owner>/<repo>/<branch> for a key with no stored value
\* answers 200 with exactly the literal "[]"; for a key with a stored value
\* it answers with that stored snapshot.
C9_QueueRead ==
    req.op = "queue" =>
        /\ resp.status = 200
        /\ AskedKey \notin DOMAIN store => resp.body = <<"[]">>
        /\ AskedKey \in DOMAIN store => resp.body = store[AskedKey]

\* a queue that was never written is read while another queue is stored
C9_Witness ==
    /\ req.op = "queue" /\ AskedKey \notin DOMAIN store /\ store # <<>>
    /\ resp = [status |-> 200, body |-> <<"[]">>]

---------------------------------------------------------------------------
(* C10 *)

\* the snapshots of the last GET /status
Snapshots == loads(resp.body)

\* C10: in every GlobalStatus the aggregator produces, each snapshot's
\* updated_at is the greatest updated_at among its entries, and is absent
\* when the snapshot has no entry; the aggregation completes when a stored
\* snapshot encodes the empty entry sequence.
C10_UpdatedAtIsMax ==
    req.op = "status" =>
        /\ resp.status = 200
        /\ \A k \in 1..Len(Snapshots) :
              LET q == Snapshots[k] IN
              IF q.pulls = <<>> THEN q.updated_at = None
              ELSE /\ \E i \in 1..Len(q.pulls) : q.pulls[i].updated_at = q.updated_at
                   /\ \A i \in 1..Len(q.pulls) :
                         Rank(q.pulls[i].updated_at) <= Rank(q.updated_at)

---------------------------------------------------------------------------
(* C18 *)

\* C18: event intake is all-or-nothing: a POST /event that added a job to
\* the queue is answered 202; no exchange ends with a job enqueued and an
\* error status.
C18_EnqueuedOnlyWith202 ==
    (req.op = "event" /\ Len(NewJobs) > 0) => resp.status = 202

---------------------------------------------------------------------------
(* C17 *)

---------------------------------------------------------------------------
(* C15 *)

\* the value read for a key was a stored snapshot with no entry (the case
\* of C10)
ReadEmptyList(v) == Truthy(v) /\ loads(decompress(v)) = <<>>

\* C15: the status aggregation answers with exactly one snapshot per key it
\* enumerated, in which a key read with a value carries the entries stored
\* under that key, and a key whose value was absent when read (the worker
\* removed it after the enumeration) has no entry and no updated_at; it
\* never answers with an error nor with the entries of another key.
C15_OneSnapshotPerKey ==
    (/\ req.op = "status"
     /\ "reads" \in DOMAIN req
     /\ \A k \in 1..Len(req.reads) : ~ReadEmptyList(req.reads[k]))
    => /\ resp.status = 200
       /\ Len(Snapshots) = Len(req.keys)
       /\ \A k \in 1..Len(req.keys) :
             LET q == Snapshots[k] IN
             /\ QueueKey(q.owner, q.repo, q.branch) = req.keys[k]
             /\ Truthy(req.reads[k]) =>
                   q.pulls = loads(decompress(req.reads[k]))
             /\ ~Truthy(req.reads[k]) =>
                   (q.pulls = <<>> /\ q.updated_at = None)

---------------------------------------------------------------------------
(* The status stream *)

\* the refresh frame that carries the aggregate of the store as it is now
RefreshNow ==
    {<<"event: ", "refresh", "\ndata: ">> \o StatusNow(keys).body \o <<"\n\n">> :
        keys \in {o \in Orders(Matching(store)) : StatusNow(o).status = 200}}

PingFrame == <<"event: ", "ping", "\ndata: ", "{}", "\n\n">>

\* the type of a frame and, for a refresh frame, the queues it carries
FrameType(f) == f[2]
FrameQueues(f) == f[5]

---------------------------------------------------------------------------
(* C11 *)

\* C11: the first frame a streaming session emits is a refresh frame that
\* carries the status aggregated from the store at the time of the
\* connection; no ping and no other frame comes before it, and it stays the
\* first.
C11_FirstFrameIsRefresh ==
    [][\A s \in Sessions :
          /\ (frames[s] = <<>> /\ frames'[s] # <<>>)
             => /\ pc[s] = "none"
                /\ Len(frames'[s]) = 1
                /\ frames'[s][1].frame \in RefreshNow
          /\ frames[s] # <<>>
             => (frames'[s] # <<>> /\ frames'[s][1] = frames[s][1])]_vars

\* a session whose first frame carried a stored entry has sent a later frame
C11_Witness ==
    \E s \in Sessions :
       /\ Len(frames[s]) >= 2
       /\ FrameType(frames[s][1].frame) = "refresh"
       /\ FrameQueues(frames[s][1].frame) # <<>>

---------------------------------------------------------------------------
(* C12 *)

\* C12: every wait of a subscribed session ends in exactly one frame: a
\* ping frame with the data "{}" when no message came within the timeout, a
\* refresh frame carrying the aggregate of the store as it is then when an
\* update notification came; nothing but a published notification makes a
\* session emit a refresh frame after its first one.
C12_OneFramePerWait ==
    [][\A s \in Sessions :
          (pc[s] = "wait" /\ pc'[s] # "wait")
          => /\ Len(frames'[s]) = Len(frames[s]) + 1
             /\ SubSeq(frames'[s], 1, Len(frames[s])) = frames[s]
             /\ LET f == frames'[s][Len(frames'[s])].frame IN
                IF inbox[s] = <<>>
                THEN f = PingFrame
                ELSE /\ Head(inbox[s]).type = "message"
                     /\ f \in RefreshNow]_vars

---------------------------------------------------------------------------
(* C13 *)

\* C13: once the client of a streaming session has disconnected, whether a
\* frame was being emitted or the session was waiting for a notification,
\* the session emits no further frame, and it ends with its subscription to
\* "update" released.
C13_NoFrameAfterDisconnect ==
    [][\A s \in Sessions :
          (pc[s] # "none" /\ ~conn[s])
          => /\ frames'[s] = frames[s]
             /\ pc'[s] = "closed" => s \notin subscribed']_vars

---------------------------------------------------------------------------
(* C16 *)

\* among the frames fr of a session, those the n-th notification caused;
\* among its unread messages box, the copies of that notification
Caused(fr, n) ==
    Cardinality({i \in 1..Len(fr) : fr[i].cause = Notification(n)})
Pending(box, n) ==
    Cardinality({i \in 1..Len(box) : box[i] = Notification(n)})

\* C16: delivery is at most once: a published notification reaches a
\* session at most once and causes at most one refresh frame on it, a
\* frame it causes is one the session read it for, and a notification
\* published while the session was not subscribed (before its subscription
\* completed, its first frame computed or not) never reaches it later and
\* causes no frame on it.
C16_AtMostOnce ==
    [][\A s \in Sessions :
          /\ \A n \in 1..MaxNotes :
                /\ Caused(frames'[s], n) + Pending(inbox'[s], n) <= 1
                /\ Caused(frames'[s], n) > Caused(frames[s], n)
                   => Pending(inbox[s], n) = 1
                /\ n <= published
                   => Pending(inbox'[s], n) <= Pending(inbox[s], n)
                /\ (n > published /\ s \notin subscribed)
                   => Pending(inbox'[s], n) = 0]_vars

\* a connected session emitted a refresh frame for the second notification;
\* the first one, published before it subscribed, never reached it
C16_Witness ==
    \E s \in Sessions :
       /\ conn[s]
       /\ s \in subscribed
       /\ published = 2
       /\ Caused(frames[s], 2) = 1
       /\ Caused(frames[s], 1) = 0
       /\ Pending(inbox[s], 1) = 0

---------------------------------------------------------------------------
(* C19 *)

\* C19: when the worker has replaced a snapshot and then published an
\* update notification to a subscribed session, and the client stays
\* connected, the session eventually emits the refresh frame that
\* notification causes (a session that has emitted MaxFrames frames is not
\* followed further).
C19_NotifiedSessionRefreshes ==
    \A s \in Sessions : \A n \in 1..MaxNotes :
       (Pending(inbox[s], n) = 1)
          ~> (Caused(frames[s], n) = 1 \/ ~conn[s] \/ Len(frames[s]) = MaxFrames)

---------------------------------------------------------------------------
(* C20 *)

\* the session s takes a step of its own
Moves(s) == pc'[s] # pc[s] \/ conn'[s] # conn[s]

\* C20: sessions are independent and notifications fan out: a published
\* notification reaches exactly the sessions subscribed when it is
\* published, each of which emits its own refresh frame when it reads it;
\* and a step of one session (connecting, waiting, emitting, disconnecting)
\* leaves the frames, the unread messages and the position of every other
\* session as they were.
C20_FanOutAndIndependence ==
    [][/\ published' # published
          => \A s \in Sessions :
                Pending(inbox'[s], published') =
                   (IF s \in subscribed THEN 1 ELSE 0)
       /\ \A s \in Sessions : \A n \in 1..MaxNotes :
             (pc[s] = "wait" /\ Pending(inbox[s], n) = 1
                /\ Pending(inbox'[s], n) = 0)
             => Caused(frames'[s], n) = 1
       /\ \A s \in Sessions : \A t \in Sessions \ {s} :
             Moves(s) => /\ frames'[t] = frames[t]
                         /\ inbox'[t] = inbox[t]
                         /\ pc'[t] = pc[t]
                         /\ (t \in subscribed') = (t \in subscribed)]_vars

---------------------------------------------------------------------------
(* C14 *)

\* the snapshots of the store r: its queue keys and their values
QueueSnapshots(r) == [key \in Matching(r) |-> r[key]]

\* an operation of the front end takes a step: a request is served or
\* answered, or a streaming session moves
CoreMoves ==
    \/ req' # req
    \/ scan' # scan
    \/ pc' # pc
    \/ frames' # frames
    \/ subscribed' # subscribed

\* C14: no operation of the front end (auth probe, single-branch refresh,
\* bulk refresh, queue read, status, status stream, event intake) writes,
\* replaces or deletes a snapshot: every step in which one of them moves
\* leaves the queue keys of the store and their values as they were; only
\* the worker changes them.
C14_CoreLeavesStore ==
    [][CoreMoves => QueueSnapshots(store') = QueueSnapshots(store)]_vars

\* with a snapshot stored and a job enqueued, a session has emitted its
\* first frame and one more
C14_Witness ==
    /\ Matching(store) # {}
    /\ rq # <<>>
    /\ \E s \in Sessions : Len(frames[s]) >= 2

=============================================================================
